---- MODULE Spec2Model ----
(***************************************************************************)
(* LiquidBot (src/unnamed/part_000, imported by src/src/server.ts as       *)
(* './bot'): the fee-claim / buyback / liquidity loop of one bot instance  *)
(* on the Node.js event loop.  Every `await` on a chain call is a          *)
(* suspension point; the synchronous code between two suspension points    *)
(* is one atomic action.  Amounts are JavaScript numbers, modelled as      *)
(* IEEE-754 binary64 values with round-to-nearest-even.                    *)
(***************************************************************************)
EXTENDS Integers, Sequences, FiniteSets, TLC

(***************************************************************************)
(* Natural numbers of any size: little-endian sequences of limbs in base   *)
(* 2^15, without high zero limbs (TLC integers are 32 bits wide, a         *)
(* binary64 significand is 53).                                            *)
(***************************************************************************)
Base == 32768

LimbBits == 15

RECURSIVE Pow2(_)
Pow2(n) == IF n = 0 THEN 1 ELSE 2 * Pow2(n - 1)

RECURSIVE BnNorm(_)
BnNorm(a) ==
    IF a = <<>> THEN <<>>
    ELSE IF a[Len(a)] = 0 THEN BnNorm(SubSeq(a, 1, Len(a) - 1))
    ELSE a

RECURSIVE BnFromNat(_)
BnFromNat(n) == IF n = 0 THEN <<>> ELSE <<n % Base>> \o BnFromNat(n \div Base)

Limb(a, i) == IF i <= Len(a) THEN a[i] ELSE 0

RECURSIVE BnAddFrom(_, _, _, _)
BnAddFrom(a, b, i, carry) ==
    IF i > Len(a) /\ i > Len(b)
    THEN IF carry = 0 THEN <<>> ELSE <<carry>>
    ELSE LET s == Limb(a, i) + Limb(b, i) + carry
         IN  <<s % Base>> \o BnAddFrom(a, b, i + 1, s \div Base)

BnAdd(a, b) == BnAddFrom(a, b, 1, 0)

\* a - b for a >= b
RECURSIVE BnSubFrom(_, _, _, _)
BnSubFrom(a, b, i, borrow) ==
    IF i > Len(a) THEN <<>>
    ELSE LET d == Limb(a, i) - Limb(b, i) - borrow
         IN  IF d < 0
             THEN <<d + Base>> \o BnSubFrom(a, b, i + 1, 1)
             ELSE <<d>> \o BnSubFrom(a, b, i + 1, 0)

BnSub(a, b) == BnNorm(BnSubFrom(a, b, 1, 0))

\* -1, 0, 1 as a < b, a = b, a > b, comparing from limb i downwards
RECURSIVE BnCmpFrom(_, _, _)
BnCmpFrom(a, b, i) ==
    IF i = 0 THEN 0
    ELSE IF a[i] < b[i] THEN -1
    ELSE IF a[i] > b[i] THEN 1
    ELSE BnCmpFrom(a, b, i - 1)

BnCmp(a, b) ==
    IF Len(a) < Len(b) THEN -1
    ELSE IF Len(a) > Len(b) THEN 1
    ELSE BnCmpFrom(a, b, Len(a))

\* a * k for 0 <= k < Base
RECURSIVE BnMulFrom(_, _, _, _)
BnMulFrom(a, k, i, carry) ==
    IF i > Len(a)
    THEN IF carry = 0 THEN <<>> ELSE <<carry>>
    ELSE LET s == a[i] * k + carry
         IN  <<s % Base>> \o BnMulFrom(a, k, i + 1, s \div Base)

BnMulSmall(a, k) == IF k = 0 THEN <<>> ELSE BnMulFrom(a, k, 1, 0)

\* quotient and remainder of a by k, 0 < k < Base, from limb i downwards
RECURSIVE BnDivFrom(_, _, _, _)
BnDivFrom(a, k, i, rem) ==
    IF i = 0 THEN [q |-> <<>>, r |-> rem]
    ELSE LET cur  == rem * Base + a[i]
             rest == BnDivFrom(a, k, i - 1, cur % k)
         IN  [q |-> rest.q \o <<cur \div k>>, r |-> rest.r]

BnDivNorm(d) == [q |-> BnNorm(d.q), r |-> d.r]

BnDivSmall(a, k) == BnDivNorm(BnDivFrom(a, k, Len(a), 0))

RECURSIVE BitLenNat(_)
BitLenNat(n) == IF n = 0 THEN 0 ELSE 1 + BitLenNat(n \div 2)

BnBitLen(a) ==
    IF a = <<>> THEN 0 ELSE LimbBits * (Len(a) - 1) + BitLenNat(a[Len(a)])

\* a * 2^n
BnShl(a, n) ==
    IF a = <<>> THEN <<>>
    ELSE [i \in 1..(n \div LimbBits) |-> 0] \o BnMulSmall(a, Pow2(n % LimbBits))

\* the quotient d.q with the flag: a nonzero bit is in d.r or in low
BnShrResult(d, low) ==
    [q |-> d.q, sticky |-> (d.r # 0) \/ (\E i \in 1..Len(low) : low[i] # 0)]

\* floor(a / 2^n), and whether a nonzero bit was shifted out
BnShr(a, n) ==
    BnShrResult(BnDivSmall(SubSeq(a, n \div LimbBits + 1, Len(a)), Pow2(n % LimbBits)),
                SubSeq(a, 1, IF n \div LimbBits < Len(a) THEN n \div LimbBits ELSE Len(a)))

\* d.q divided by k, the flag kept when the division leaves a remainder
BnDivKeep(d, sticky) == [q |-> d.q, sticky |-> sticky \/ d.r # 0]

BnDivSticky(d, k) == BnDivKeep(BnDivSmall(d.q, k), d.sticky)

BnOdd(a) == a # <<>> /\ a[1] % 2 = 1

(***************************************************************************)
(* binary64 values: sign * man * 2^exp with man of exactly 53 bits, or     *)
(* zero.  Every operation is the exact result rounded to nearest, ties to  *)
(* even.  The amounts of the bot lie between 2^-200 and 2^60, so the       *)
(* subnormal and overflow ranges of the format are never entered.          *)
(***************************************************************************)
Precision == 53

FZero == [sign |-> 1, man |-> <<>>, exp |-> 0]

\* m has Precision or Precision + 1 bits
Renormalise(sign, m, exp) ==
    IF BnBitLen(m) > Precision
    THEN [sign |-> sign, man |-> BnShr(m, 1).q, exp |-> exp + 1]
    ELSE [sign |-> sign, man |-> m, exp |-> exp]

\* q of Precision bits, the bit below it (half) and whether anything
\* nonzero lies below that (below): ties go to the even significand
RoundQuotient(sign, q, exp, half, below) ==
    Renormalise(sign, IF half /\ (below \/ BnOdd(q)) THEN BnAdd(q, <<1>>) ELSE q, exp)

\* q1: the significand with one bit more than Precision
RoundShifted(sign, q1, exp, sticky) ==
    RoundQuotient(sign, BnShr(q1.q, 1).q, exp, BnOdd(q1.q), q1.sticky \/ sticky)

\* man of len bits
RoundToLength(sign, man, exp, sticky, len) ==
    IF len <= Precision
    THEN [sign |-> sign, man |-> BnShl(man, Precision - len),
          exp |-> exp - (Precision - len)]
    ELSE RoundShifted(sign, BnShr(man, len - Precision - 1), exp + (len - Precision),
                      sticky)

\* sign * man * 2^exp (plus something below the last bit when sticky),
\* rounded; with sticky the caller supplies at least Precision + 2 bits
RoundNearestEven(sign, man, exp, sticky) ==
    IF man = <<>> THEN FZero ELSE RoundToLength(sign, man, exp, sticky, BnBitLen(man))

RoundSticky(sign, d, exp) == RoundNearestEven(sign, d.q, exp, d.sticky)

FNeg(x) == IF x.man = <<>> THEN x ELSE [x EXCEPT !.sign = -x.sign]

\* sx * mx * 2^e + sy * my * 2^e, with c the comparison of mx and my
FAddAligned(sx, mx, sy, my, e, c) ==
    RoundNearestEven(IF sx = sy \/ c > 0 THEN sx ELSE sy,
                     IF sx = sy THEN BnAdd(mx, my)
                     ELSE IF c > 0 THEN BnSub(mx, my)
                     ELSE BnSub(my, mx),
                     e, FALSE)

FAddShifted(sx, mx, sy, my, e) == FAddAligned(sx, mx, sy, my, e, BnCmp(mx, my))

FAddAt(x, y, e) ==
    FAddShifted(x.sign, BnShl(x.man, x.exp - e), y.sign, BnShl(y.man, y.exp - e), e)

\* x + y
FAdd(x, y) ==
    IF x.man = <<>> THEN y
    ELSE IF y.man = <<>> THEN x
    ELSE FAddAt(x, y, IF x.exp < y.exp THEN x.exp ELSE y.exp)

\* x - y
FSub(x, y) == FAdd(x, FNeg(y))

\* x * k for an integer 0 <= k < Base
FMulSmall(x, k) == RoundNearestEven(x.sign, BnMulSmall(x.man, k), x.exp, FALSE)

GuardBits == 30

\* x / k for an integer 0 < k < Base
FDivSmall(x, k) ==
    RoundSticky(x.sign,
                BnDivSticky([q |-> BnShl(x.man, GuardBits), sticky |-> FALSE], k),
                x.exp - GuardBits)

FSign(d) == IF d.man = <<>> THEN 0 ELSE d.sign

\* -1, 0, 1 as x < y, x = y, x > y
FCmp(x, y) == FSign(FSub(x, y))

FGe(x, y) == FCmp(x, y) >= 0

\* feeBalance.toNumber() / 1e9, with 1e9 = 2^9 * 125^3
FromLamports(n) ==
    RoundSticky(1,
                BnDivSticky(BnDivSticky(BnDivSticky(
                    [q |-> BnShl(BnFromNat(n), 3 * GuardBits), sticky |-> FALSE],
                    125), 125), 125),
                -(3 * GuardBits) - 9)

(***************************************************************************)
(* The bot.                                                                *)
(***************************************************************************)

\* bounds of the model: cycles launched in one behaviour, cycles in flight
MaxCycles == 2

MaxInFlight == 2

\* bound of the model: start() and stop() calls made in one behaviour
MaxCalls == 2

\* bound of the model: chain calls that fail in one behaviour
MaxFaults == 2

\* getCreatorVaultBalanceBothPrograms results, in lamports: below the
\* default threshold, and equal to it
FeeLamports == {10000000, 15000000}

\* getTokenAccountBalance results (uiAmount)
TokenAmounts == {0, 1}

\* BUYBACK_PERCENTAGE, default '50'
Percentages == {50}

\* getCreatorVaultBalanceBothPrograms results of the split check: amounts
\* of a few lamports, and amounts just above the default threshold
SplitLamports == {27, 57, 15000001, 15000002, 15000021, 20000000}

\* MIN_FEE_THRESHOLD default '0.015' (SOL), in lamports
MinFeeThresholdLamports == 15000000

\* parseFloat('0.015'): the binary64 nearest to 15000000 / 1e9
DefaultMinFeeThreshold == FromLamports(MinFeeThresholdLamports)

NoTimer == 0

NoPool == "null"

\* canonicalPumpPoolPda(tokenMint).toBase58(): one address per token
PoolAddress == "pool"

\* feeBalance.toNumber() / 1e9 of the balances read (0: the read failed)
LamportsToSOL == [n \in FeeLamports \cup SplitLamports \cup {0} |-> FromLamports(n)]

VARIABLES
    config,        \* BotConfig: minFeeThreshold, buybackPercentage
    isRunning,     \* this.isRunning
    intervalId,    \* this.intervalId: NoTimer (null) or a timer
    timers,        \* the armed setInterval timers of the event loop
    status,        \* this.status
    pumpSwapPool,  \* this.pumpSwapPool
    cycles,        \* the runCycle invocations in flight, by number
    clock,         \* number of cycles launched; new Date() of a cycle
    emitted,       \* events emitted by the last step, in order
    step,          \* the last step: the call made or the chain call resumed
    deposited,     \* history: sum of solAmount over the confirmed deposits
    holdProduced,  \* history: sum of holdAmount over the confirmed fee claims
    liquidityReported,  \* history: a cycle reported 'pumpswap' with the pool set
    published,     \* history: the status carried by the last statusUpdate event
    logBuffer,     \* server.ts logBuffer: the entries kept, oldest first
    logged,        \* number of 'log' events the server has handled
    calls,         \* number of start() and stop() calls made so far
    faults         \* number of chain calls that have failed so far

vars == <<config, isRunning, intervalId, timers, status, pumpSwapPool, cycles,
          clock, emitted, step, deposited, holdProduced, liquidityReported,
          published, logBuffer, logged, calls, faults>>

\* the frame of a runCycle invocation
NewCycle ==
    [pc |-> "fetchBondingCurve", origin |-> "none", curve |-> "none",
     phase |-> "unknown", feeBalanceSOL |-> FZero, buybackAmount |-> FZero,
     holdAmount |-> FZero, totalSolAvailable |-> FZero,
     \* history of the invocation: totalSolHeld when it began, the outcome
     \* of its fee claim and of its deposit
     heldAtStart |-> FZero, claim |-> "none", deposit |-> "none"]

InitialStatus ==
    [isRunning |-> FALSE, tokenMint |-> "mint", currentPhase |-> "unknown",
     totalFeesCollected |-> FZero, totalBuybacks |-> FZero,
     totalSolHeld |-> FZero, tokensHeld |-> 0, lastCheck |-> 0,
     pumpSwapPool |-> NoPool]

Log(level, message) == [event |-> "log", level |-> level, message |-> message]

\* this.emit('statusUpdate', this.status): the payload is this.status itself
StatusUpdate == [event |-> "statusUpdate", level |-> "none", message |-> "status"]

Step(kind, c, call, result, value) ==
    [kind |-> kind, cycle |-> c, call |-> call, result |-> result, value |-> value]

\* const MAX_LOGS = 500
MAX_LOGS == 500

\* a listener that lets the buffer grow one entry too long
OverflowsLate(buffer) == Len(buffer) > MAX_LOGS + 1

\* if (logBuffer.length > MAX_LOGS)
Overflows(buffer) == Len(buffer) > MAX_LOGS

\* logBuffer.shift() when the pushed entry made the buffer too long
ShiftIfOverflows(buffer) == IF Overflows(buffer) THEN Tail(buffer) ELSE buffer

\* bot.on('log', ...): logBuffer.push(entry), then the shift
Push(buffer, entry) == ShiftIfOverflows(Append(buffer, entry))

\* LiquidBot.log: the entry of the n-th 'log' event; its timestamp is the
\* position of the event in the order of emission
Entry(e, n) == [timestamp |-> n, level |-> e.level, message |-> e.message]

\* the buffer after the listener has run for each 'log' event of events,
\* n entries having been handled before
RECURSIVE Deliver(_, _, _)
Deliver(buffer, n, events) ==
    IF events = <<>> THEN buffer
    ELSE IF Head(events).event = "log"
    THEN Deliver(Push(buffer, Entry(Head(events), n + 1)), n + 1, Tail(events))
    ELSE Deliver(buffer, n, Tail(events))

\* the 'log' events among the events of one step
LogEvents(events) == {i \in DOMAIN events : events[i].event = "log"}

\* this.emit('log', entry) runs the listener of server.ts at once, for
\* every entry the step logs
EmitLogs ==
    /\ logBuffer' = Deliver(logBuffer, logged, emitted')
    /\ logged' = logged + Cardinality(LogEvents(emitted'))

\* the outcome of a chain call: one more failure when it threw
Settles(result) ==
    /\ result = "error" => faults < MaxFaults
    /\ faults' = IF result = "error" THEN faults + 1 ELSE faults

Init ==
    /\ config \in [minFeeThreshold : {DefaultMinFeeThreshold},
                   buybackPercentage : Percentages]
    /\ isRunning = FALSE
    /\ intervalId = NoTimer
    /\ timers = {}
    /\ status = InitialStatus
    /\ pumpSwapPool = NoPool
    /\ cycles = <<>>
    /\ clock = 0
    /\ emitted = <<>>
    /\ step = Step("init", 0, "none", "none", 0)
    /\ deposited = FZero
    /\ holdProduced = FZero
    /\ liquidityReported = FALSE
    /\ published = InitialStatus
    /\ logBuffer = <<>>
    /\ logged = 0
    /\ calls = 0
    /\ faults = 0

InFlight == DOMAIN cycles

CanLaunch == clock < MaxCycles /\ Cardinality(InFlight) < MaxInFlight

\* a runCycle that keeps the phase of the last cycle and probes nothing
LaunchWithoutProbe(origin) ==
    cycles @@ ((clock + 1) :> [NewCycle EXCEPT !.origin = origin,
                                               !.heldAtStart = status.totalSolHeld,
                                               !.phase = status.currentPhase,
                                               !.pc = "getCreatorFeeBalance"])

\* runCycle up to its first await (fetchBondingCurve in checkTokenPhase)
Launch(origin) ==
    cycles @@ ((clock + 1) :> [NewCycle EXCEPT !.origin = origin,
                                               !.heldAtStart = status.totalSolHeld])

RunningCycleLog == Log("info", "Running cycle...")

\* the buyback / hold split of runCycle
BuybackAmount(feeBalanceSOL, buybackPercentage) ==
    FDivSmall(FMulSmall(feeBalanceSOL, buybackPercentage), 100)

HoldAmount(feeBalanceSOL, buybackAmount) == FSub(feeBalanceSOL, buybackAmount)

\* a runCycle invocation returns; start(), awaiting its initial cycle,
\* continues in the same turn of the event loop with setInterval
EndCycle(c) ==
    /\ cycles' = [d \in InFlight \ {c} |-> cycles[d]]
    /\ IF cycles[c].origin = "start"
       THEN /\ intervalId' = c
            /\ timers' = timers \cup {c}
       ELSE UNCHANGED <<intervalId, timers>>

\* a start() that lost its guard
AlreadyRunningNever == FALSE

\* start(): if (this.isRunning)
AlreadyRunning == isRunning

\* stop(): if (!this.isRunning)
NotRunning == ~isRunning

\* start()
Start ==
    /\ calls' = calls + 1
    /\ faults' = faults
    /\ step' = Step("start", 0, "none", "none", 0)
    /\ IF AlreadyRunning
       THEN /\ emitted' = <<Log("warning", "Bot is already running")>>
            /\ UNCHANGED <<config, published, isRunning,
                           intervalId, timers, status, pumpSwapPool, cycles,
                           clock, deposited, holdProduced,
                           liquidityReported>>
       ELSE /\ CanLaunch
            /\ isRunning' = TRUE
            /\ status' = [status EXCEPT !.isRunning = TRUE, !.lastCheck = clock + 1]
            /\ emitted' = <<Log("success", "Bot started!"), RunningCycleLog>>
            /\ cycles' = Launch("start")
            /\ clock' = clock + 1
            /\ UNCHANGED <<config, published, intervalId,
                           timers, pumpSwapPool, deposited, holdProduced,
                           liquidityReported>>
    /\ EmitLogs

\* a stop() that abandons the cycles in flight
StopInterrupts ==
    /\ calls' = calls + 1
    /\ faults' = faults
    /\ step' = Step("stop", 0, "none", "none", 0)
    /\ isRunning
    /\ timers' = timers \ {intervalId}
    /\ intervalId' = NoTimer
    /\ isRunning' = FALSE
    /\ status' = [status EXCEPT !.isRunning = FALSE]
    /\ emitted' = <<Log("info", "Bot stopped")>>
    /\ cycles' = <<>>
    /\ UNCHANGED <<config, published, pumpSwapPool,
                   clock, deposited, holdProduced, liquidityReported>>
    /\ EmitLogs

\* stop()
Stop ==
    /\ calls' = calls + 1
    /\ faults' = faults
    /\ step' = Step("stop", 0, "none", "none", 0)
    /\ IF NotRunning
       THEN /\ emitted' = <<Log("warning", "Bot is not running")>>
            /\ UNCHANGED <<config, published, isRunning,
                           intervalId, timers, status, pumpSwapPool, cycles,
                           clock, deposited, holdProduced,
                           liquidityReported>>
       ELSE /\ IF intervalId # NoTimer
               THEN /\ timers' = timers \ {intervalId}
                    /\ intervalId' = NoTimer
               ELSE UNCHANGED <<timers, intervalId>>
            /\ isRunning' = FALSE
            /\ status' = [status EXCEPT !.isRunning = FALSE]
            /\ emitted' = <<Log("info", "Bot stopped")>>
            /\ UNCHANGED <<config, published,
                           pumpSwapPool, cycles, clock, deposited,
                           holdProduced, liquidityReported>>
    /\ EmitLogs

\* an armed setInterval timer fires: () => this.runCycle()
Tick(t) ==
    /\ t \in timers
    /\ CanLaunch
    /\ step' = Step("tick", clock + 1, "none", "none", t)
    /\ status' = [status EXCEPT !.lastCheck = clock + 1]
    /\ emitted' = <<RunningCycleLog>>
    /\ cycles' = Launch("timer")
    /\ clock' = clock + 1
    /\ UNCHANGED <<faults, calls, config, published, isRunning,
                   intervalId, timers, pumpSwapPool, deposited, holdProduced,
                   liquidityReported>>
    /\ EmitLogs

PhaseLog == Log("info", "Token phase")

\* checkTokenPhase resumes from fetchBondingCurve
FetchBondingCurveDone(c, result) ==
    /\ c \in InFlight
    /\ cycles[c].pc = "fetchBondingCurve"
    /\ step' = Step("resume", c, "fetchBondingCurve", result, 0)
    /\ Settles(result)
    /\ IF result = "incomplete"
       THEN /\ cycles' = [cycles EXCEPT ![c].pc = "getCreatorFeeBalance",
                                        ![c].phase = "bonding_curve"]
            /\ status' = [status EXCEPT !.currentPhase = "bonding_curve"]
            /\ emitted' = <<PhaseLog>>
       ELSE /\ cycles' = [cycles EXCEPT ![c].pc = "getAccountInfo",
                                        ![c].curve = result]
            /\ status' = status
            /\ emitted' = IF result = "error"
                          THEN <<Log("warning", "Could not determine token phase, checking PumpSwap...")>>
                          ELSE <<>>
    /\ UNCHANGED <<calls, config, published, isRunning,
                   intervalId, timers, pumpSwapPool, clock, deposited,
                   holdProduced, liquidityReported>>
    /\ EmitLogs

\* a phase that ignores the pool when the curve read failed
PhaseIgnoresPool(curve, pool) ==
    IF curve = "complete" THEN "pumpswap" ELSE "unknown"

\* the phase checkTokenPhase returns once detectPumpSwapPool is through
PhaseAfterPoolLookup(curve, pool) ==
    IF curve = "complete" THEN "pumpswap"
    ELSE IF pool # NoPool THEN "pumpswap"
    ELSE "unknown"

\* a lookup that forgets the cached pool when it finds no account
PoolForgotten(result, pool) ==
    IF result = "exists" THEN PoolAddress ELSE NoPool

\* detectPumpSwapPool: if (poolInfo) this.pumpSwapPool = poolAddress
PoolAfterLookup(result, pool) ==
    IF result = "exists" THEN PoolAddress ELSE pool

\* detectPumpSwapPool resumes from getAccountInfo, checkTokenPhase returns
GetAccountInfoDone(c, result) ==
    /\ c \in InFlight
    /\ cycles[c].pc = "getAccountInfo"
    /\ step' = Step("resume", c, "getAccountInfo", result, 0)
    /\ Settles(result)
    /\ pumpSwapPool' = PoolAfterLookup(result, pumpSwapPool)
    /\ LET phase == PhaseAfterPoolLookup(cycles[c].curve, pumpSwapPool')
       IN  /\ cycles' = [cycles EXCEPT ![c].pc = "getCreatorFeeBalance",
                                       ![c].phase = phase]
           /\ status' = [status EXCEPT
                           !.pumpSwapPool = PoolAfterLookup(result, @),
                           !.currentPhase = phase]
           /\ liquidityReported' =
                 (liquidityReported \/ (phase = "pumpswap" /\ pumpSwapPool' # NoPool))
    /\ emitted' = (IF result = "exists"
                   THEN <<Log("success", "Detected PumpSwap pool")>>
                   ELSE IF result = "error"
                   THEN <<Log("warning", "Could not detect PumpSwap pool")>>
                   ELSE <<>>) \o <<PhaseLog>>
    /\ UNCHANGED <<calls, config, published, isRunning,
                   intervalId, timers, clock, deposited, holdProduced>>
    /\ EmitLogs

\* a threshold test with > for >=
AboveThresholdStrict(feeBalanceSOL) == FCmp(feeBalanceSOL, config.minFeeThreshold) > 0

\* runCycle: if (feeBalanceSOL >= this.config.minFeeThreshold)
AboveThreshold(feeBalanceSOL) == FGe(feeBalanceSOL, config.minFeeThreshold)

BelowThresholdLog == Log("info", "Fees below threshold, skipping...")

\* runCycle from feeBalance.toNumber() / 1e9 to its next await
RunCycleAfterFeeRead(c, feeBalanceSOL, readLog) ==
    /\ cycles' = [cycles EXCEPT
                    ![c].pc = IF AboveThreshold(feeBalanceSOL)
                              THEN "collectCoinCreatorFeeInstructions"
                              ELSE "updateTokenBalance",
                    ![c].feeBalanceSOL = feeBalanceSOL]
    /\ emitted' = readLog \o
                  <<Log("info", "Creator fee balance"),
                    IF AboveThreshold(feeBalanceSOL)
                    THEN Log("success", "Fees above threshold, claiming...")
                    ELSE BelowThresholdLog>>

\* getCreatorFeeBalance resumes: the balance read, or BN(0) when the read failed
GetCreatorFeeBalanceDone(c, result, lamports) ==
    /\ c \in InFlight
    /\ cycles[c].pc = "getCreatorFeeBalance"
    /\ step' = Step("resume", c, "getCreatorFeeBalance", result, lamports)
    /\ Settles(result)
    /\ RunCycleAfterFeeRead(c, LamportsToSOL[lamports],
                            IF result = "error"
                            THEN <<Log("error", "Failed to get creator fee balance")>>
                            ELSE <<>>)
    /\ UNCHANGED <<calls, config, published, isRunning,
                   intervalId, timers, status, pumpSwapPool, clock,
                   deposited, holdProduced, liquidityReported>>
    /\ EmitLogs

\* runCycle's catch block
CycleErrorLog == Log("error", "Cycle error")

\* a claimFees whose catch block does not rethrow
ClaimFeesSwallows(result) == FALSE

\* claimFees: catch (error) { ...; throw error }
ClaimFeesRethrows(result) == result = "error"

ClaimFeesLog(result) ==
    IF result = "confirmed" THEN Log("success", "Fees claimed!")
    ELSE IF result = "empty" THEN Log("warning", "No fee claim instructions generated")
    ELSE Log("error", "Failed to claim fees")

\* handlePumpSwapPhase: if (!this.pumpSwapPool)
PoolNotDetected(c) == cycles[c].phase = "pumpswap" /\ pumpSwapPool = NoPool

\* a branch into the pool path that does not look at the pool
PhaseIsPumpSwap(c) == cycles[c].phase = "pumpswap"

\* handlePumpSwapPhase with the pool set
PoolDetected(c) == cycles[c].phase = "pumpswap" /\ pumpSwapPool # NoPool

\* runCycle from the return of claimFees to its next await: the ledger
\* update, the split, and the branch on the phase; without a pool
\* handlePumpSwapPhase awaits no chain call
RunCycleAfterClaim(c, result, buybackAmount, holdAmount) ==
    /\ holdProduced' = IF result = "confirmed"
                       THEN FAdd(holdProduced, holdAmount)
                       ELSE holdProduced
    /\ status' = [status EXCEPT
                    !.totalFeesCollected = FAdd(@, cycles[c].feeBalanceSOL),
                    !.totalBuybacks = IF PoolNotDetected(c)
                                      THEN FAdd(@, buybackAmount) ELSE @,
                    !.totalSolHeld = IF PoolNotDetected(c)
                                     THEN FAdd(@, holdAmount) ELSE @]
    /\ cycles' = [cycles EXCEPT
                    ![c].claim = result,
                    ![c].buybackAmount = buybackAmount,
                    ![c].holdAmount = holdAmount,
                    ![c].totalSolAvailable = IF PoolDetected(c)
                                             THEN FAdd(status.totalSolHeld, holdAmount)
                                             ELSE @,
                    ![c].pc = IF cycles[c].phase = "bonding_curve"
                              THEN "fetchGlobal"
                              ELSE IF PoolDetected(c) THEN "swapSolanaState"
                              ELSE "updateTokenBalance"]
    /\ emitted' = <<ClaimFeesLog(result), Log("info", "Buyback amount"),
                    Log("info", "Hold amount")>> \o
                  (IF PoolNotDetected(c)
                   THEN <<Log("warning", "PumpSwap pool not detected, cannot add liquidity"),
                          Log("warning", "No PumpSwap pool to buyback from")>>
                   ELSE IF PoolDetected(c)
                   THEN <<Log("info", "PumpSwap phase detected. Total SOL available for LP")>>
                   ELSE <<>>)
    /\ UNCHANGED <<intervalId, timers>>

RunCycleSplit(c, result, buybackAmount) ==
    RunCycleAfterClaim(c, result, buybackAmount,
                       HoldAmount(cycles[c].feeBalanceSOL, buybackAmount))

\* claimFees returns or throws, then runCycle runs up to its next await
\* (confirmed: sendAndConfirmTransaction returned; empty: no instructions,
\* nothing submitted; error: a call threw and the catch block rethrows)
ClaimFeesReturned(c, result) ==
    IF ClaimFeesRethrows(result)
    THEN /\ emitted' = <<Log("error", "Failed to claim fees"), CycleErrorLog>>
         /\ EndCycle(c)
         /\ UNCHANGED <<status, holdProduced>>
    ELSE RunCycleSplit(c, result,
                       BuybackAmount(cycles[c].feeBalanceSOL, config.buybackPercentage))

\* claimFees: await this.pumpSdk.collectCoinCreatorFeeInstructions(...)
\* resumes; with instructions the transaction is submitted and claimFees
\* awaits again
CollectCoinCreatorFeeInstructionsDone(c, result) ==
    /\ c \in InFlight
    /\ cycles[c].pc = "collectCoinCreatorFeeInstructions"
    /\ step' = Step("resume", c, "collectCoinCreatorFeeInstructions", result, 0)
    /\ Settles(result)
    /\ UNCHANGED <<calls, config, published, isRunning,
                   pumpSwapPool, clock, deposited, liquidityReported>>
    /\ IF result = "ok"
       THEN /\ cycles' = [cycles EXCEPT ![c].pc = "sendClaim"]
            /\ emitted' = <<>>
            /\ UNCHANGED <<status, holdProduced, intervalId, timers>>
       ELSE ClaimFeesReturned(c, result)
    /\ EmitLogs

\* claimFees: await sendAndConfirmTransaction(...) resumes
ClaimFeesDone(c, result) ==
    /\ c \in InFlight
    /\ cycles[c].pc = "sendClaim"
    /\ step' = Step("resume", c, "sendClaim", result, 0)
    /\ Settles(result)
    /\ UNCHANGED <<calls, config, published, isRunning,
                   pumpSwapPool, clock, deposited, liquidityReported>>
    /\ ClaimFeesReturned(c, result)
    /\ EmitLogs

\* buybackOnBondingCurve's catch block, which rethrows into runCycle's
BuybackOnBondingCurveFailed(c) ==
    /\ emitted' = <<Log("error", "Buyback failed"), CycleErrorLog>>
    /\ EndCycle(c)
    /\ status' = status

\* one of the awaits of buybackOnBondingCurve before its transaction
\* resumes: the function goes on to its next await, or the call threw
BuybackOnBondingCurveAwaits(c, call, next, result) ==
    /\ c \in InFlight
    /\ cycles[c].pc = call
    /\ step' = Step("resume", c, call, result, 0)
    /\ Settles(result)
    /\ UNCHANGED <<calls, config, published, isRunning,
                   pumpSwapPool, clock, deposited, holdProduced,
                   liquidityReported>>
    /\ IF result = "ok"
       THEN /\ cycles' = [cycles EXCEPT ![c].pc = next]
            /\ emitted' = <<>>
            /\ UNCHANGED <<status, intervalId, timers>>
       ELSE BuybackOnBondingCurveFailed(c)
    /\ EmitLogs

\* const global = await this.pumpSdk.fetchGlobal()
FetchGlobalDone(c, result) ==
    BuybackOnBondingCurveAwaits(c, "fetchGlobal", "fetchFeeConfig", result)

\* const feeConfig = await this.pumpSdk.fetchFeeConfig()
FetchFeeConfigDone(c, result) ==
    BuybackOnBondingCurveAwaits(c, "fetchFeeConfig", "fetchBuyState", result)

\* await this.pumpSdk.fetchBuyState(...), then getBuyTokenAmountFromSolAmount
FetchBuyStateDone(c, result) ==
    BuybackOnBondingCurveAwaits(c, "fetchBuyState", "buyInstructions", result)

\* const instructions = await PUMP_SDK.buyInstructions(...), then the
\* transaction is submitted
BuyInstructionsDone(c, result) ==
    BuybackOnBondingCurveAwaits(c, "buyInstructions", "sendBondingBuy", result)

\* buybackOnBondingCurve: await sendAndConfirmTransaction(...) resumes: the
\* buy is confirmed and runCycle adds the split to the ledger, or it threw
BuybackOnBondingCurveDone(c, result) ==
    /\ c \in InFlight
    /\ cycles[c].pc = "sendBondingBuy"
    /\ step' = Step("resume", c, "sendBondingBuy", result, 0)
    /\ Settles(result)
    /\ UNCHANGED <<calls, config, published, isRunning,
                   pumpSwapPool, clock, deposited, holdProduced,
                   liquidityReported>>
    /\ IF result = "confirmed"
       THEN /\ status' = [status EXCEPT
                            !.totalBuybacks = FAdd(@, cycles[c].buybackAmount),
                            !.totalSolHeld = FAdd(@, cycles[c].holdAmount)]
            /\ cycles' = [cycles EXCEPT ![c].pc = "updateTokenBalance"]
            /\ emitted' = <<Log("success", "Buyback completed!")>>
            /\ UNCHANGED <<intervalId, timers>>
       ELSE BuybackOnBondingCurveFailed(c)
    /\ EmitLogs

\* handlePumpSwapPhase from the return of buybackOnPumpSwap to the first
\* await of addLiquidityToPumpSwap
AfterBuybackOnPumpSwap(c) ==
    /\ status' = [status EXCEPT !.totalBuybacks = FAdd(@, cycles[c].buybackAmount)]
    /\ cycles' = [cycles EXCEPT ![c].pc = "liquiditySolanaState"]

PumpSwapBuybackFailed == Log("error", "PumpSwap buyback failed")

\* buybackOnPumpSwap resumes from swapSolanaState
SwapSolanaStateDone(c, result) ==
    /\ c \in InFlight
    /\ cycles[c].pc = "swapSolanaState"
    /\ step' = Step("resume", c, "swapSolanaState", result, 0)
    /\ Settles(result)
    /\ IF result = "ok"
       THEN /\ emitted' = <<Log("info", "Buying tokens on PumpSwap")>>
            /\ cycles' = [cycles EXCEPT ![c].pc = "buyQuoteInput"]
            /\ status' = status
       ELSE /\ emitted' = <<PumpSwapBuybackFailed>>
            /\ AfterBuybackOnPumpSwap(c)
    /\ UNCHANGED <<calls, config, published, isRunning, intervalId, timers,
                   pumpSwapPool, clock, deposited, holdProduced,
                   liquidityReported>>
    /\ EmitLogs

\* buybackOnPumpSwap resumes from buyQuoteInput
BuyQuoteInputDone(c, result) ==
    /\ c \in InFlight
    /\ cycles[c].pc = "buyQuoteInput"
    /\ step' = Step("resume", c, "buyQuoteInput", result, 0)
    /\ Settles(result)
    /\ IF result = "ok"
       THEN /\ emitted' = <<>>
            /\ cycles' = [cycles EXCEPT ![c].pc = "sendBuyback"]
            /\ status' = status
       ELSE /\ emitted' = <<PumpSwapBuybackFailed>>
            /\ AfterBuybackOnPumpSwap(c)
    /\ UNCHANGED <<calls, config, published, isRunning, intervalId, timers,
                   pumpSwapPool, clock, deposited, holdProduced,
                   liquidityReported>>
    /\ EmitLogs

\* buybackOnPumpSwap resumes from sendAndConfirmTransaction and returns;
\* handlePumpSwapPhase goes on to addLiquidityToPumpSwap
BuybackOnPumpSwapDone(c, result) ==
    /\ c \in InFlight
    /\ cycles[c].pc = "sendBuyback"
    /\ step' = Step("resume", c, "sendBuyback", result, 0)
    /\ Settles(result)
    /\ emitted' = IF result = "confirmed"
                  THEN <<Log("success", "PumpSwap buyback completed!")>>
                  ELSE <<PumpSwapBuybackFailed>>
    /\ AfterBuybackOnPumpSwap(c)
    /\ UNCHANGED <<calls, config, published, isRunning, intervalId, timers,
                   pumpSwapPool, clock, deposited, holdProduced,
                   liquidityReported>>
    /\ EmitLogs

\* handlePumpSwapPhase from the return of addLiquidityToPumpSwap to the
\* next await of runCycle
HandlePumpSwapPhaseReturns(c, result) ==
    /\ status' = [status EXCEPT !.totalSolHeld = FZero]
    /\ cycles' = [cycles EXCEPT ![c].pc = "updateTokenBalance",
                                 ![c].deposit = result]
    /\ deposited' = IF result = "confirmed"
                    THEN FAdd(deposited, cycles[c].totalSolAvailable)
                    ELSE deposited

AddLiquidityFailed == Log("error", "Add liquidity failed")

\* addLiquidityToPumpSwap resumes from liquiditySolanaState (error: the
\* call or the quote computed from its result threw)
LiquiditySolanaStateDone(c, result) ==
    /\ c \in InFlight
    /\ cycles[c].pc = "liquiditySolanaState"
    /\ step' = Step("resume", c, "liquiditySolanaState", result, 0)
    /\ Settles(result)
    /\ IF result = "ok"
       THEN /\ emitted' = <<Log("info", "Adding liquidity")>>
            /\ cycles' = [cycles EXCEPT ![c].pc = "depositInstructions"]
            /\ UNCHANGED <<status, deposited>>
       ELSE /\ emitted' = <<AddLiquidityFailed>>
            /\ HandlePumpSwapPhaseReturns(c, result)
    /\ UNCHANGED <<calls, config, published, isRunning, intervalId, timers,
                   pumpSwapPool, clock, holdProduced, liquidityReported>>
    /\ EmitLogs

\* addLiquidityToPumpSwap resumes from depositInstructions
DepositInstructionsDone(c, result) ==
    /\ c \in InFlight
    /\ cycles[c].pc = "depositInstructions"
    /\ step' = Step("resume", c, "depositInstructions", result, 0)
    /\ Settles(result)
    /\ IF result = "ok"
       THEN /\ emitted' = <<>>
            /\ cycles' = [cycles EXCEPT ![c].pc = "sendDeposit"]
            /\ UNCHANGED <<status, deposited>>
       ELSE /\ emitted' = <<AddLiquidityFailed>>
            /\ HandlePumpSwapPhaseReturns(c, result)
    /\ UNCHANGED <<calls, config, published, isRunning, intervalId, timers,
                   pumpSwapPool, clock, holdProduced, liquidityReported>>
    /\ EmitLogs

\* addLiquidityToPumpSwap resumes from sendAndConfirmTransaction and
\* returns; handlePumpSwapPhase returns
AddLiquidityToPumpSwapDone(c, result) ==
    /\ c \in InFlight
    /\ cycles[c].pc = "sendDeposit"
    /\ step' = Step("resume", c, "sendDeposit", result, 0)
    /\ Settles(result)
    /\ emitted' = IF result = "confirmed"
                  THEN <<Log("success", "Liquidity added to PumpSwap!")>>
                  ELSE <<AddLiquidityFailed>>
    /\ HandlePumpSwapPhaseReturns(c, result)
    /\ UNCHANGED <<calls, config, published, isRunning, intervalId, timers,
                   pumpSwapPool, clock, holdProduced, liquidityReported>>
    /\ EmitLogs

\* updateTokenBalance resumes (uiAmount || 0, or 0 when the read threw);
\* runCycle emits statusUpdate and returns
UpdateTokenBalanceDone(c, result, uiAmount) ==
    /\ c \in InFlight
    /\ cycles[c].pc = "updateTokenBalance"
    /\ step' = Step("resume", c, "updateTokenBalance", result, uiAmount)
    /\ Settles(result)
    /\ status' = [status EXCEPT !.tokensHeld = IF result = "ok" THEN uiAmount ELSE 0]
    /\ emitted' = <<StatusUpdate>>
    /\ published' = status'
    /\ EndCycle(c)
    /\ UNCHANGED <<calls, config, isRunning, pumpSwapPool, clock,
                   deposited, holdProduced, liquidityReported>>
    /\ EmitLogs

Resume(c) ==
    \/ \E r \in {"incomplete", "complete", "error"} : FetchBondingCurveDone(c, r)
    \/ \E r \in {"exists", "absent", "error"} : GetAccountInfoDone(c, r)
    \/ \E n \in FeeLamports : GetCreatorFeeBalanceDone(c, "ok", n)
    \/ GetCreatorFeeBalanceDone(c, "error", 0)
    \/ \E r \in {"ok", "empty", "error"} : CollectCoinCreatorFeeInstructionsDone(c, r)
    \/ \E r \in {"confirmed", "error"} : ClaimFeesDone(c, r)
    \/ \E r \in {"ok", "error"} : FetchGlobalDone(c, r)
    \/ \E r \in {"ok", "error"} : FetchFeeConfigDone(c, r)
    \/ \E r \in {"ok", "error"} : FetchBuyStateDone(c, r)
    \/ \E r \in {"ok", "error"} : BuyInstructionsDone(c, r)
    \/ \E r \in {"confirmed", "error"} : BuybackOnBondingCurveDone(c, r)
    \/ \E r \in {"ok", "error"} : SwapSolanaStateDone(c, r)
    \/ \E r \in {"ok", "error"} : BuyQuoteInputDone(c, r)
    \/ \E r \in {"confirmed", "error"} : BuybackOnPumpSwapDone(c, r)
    \/ \E r \in {"ok", "error"} : LiquiditySolanaStateDone(c, r)
    \/ \E r \in {"ok", "error"} : DepositInstructionsDone(c, r)
    \/ \E r \in {"confirmed", "error"} : AddLiquidityToPumpSwapDone(c, r)
    \/ \E n \in TokenAmounts : UpdateTokenBalanceDone(c, "ok", n)
    \/ UpdateTokenBalanceDone(c, "error", 0)

Next ==
    \/ calls < MaxCalls /\ Start
    \/ calls < MaxCalls /\ Stop
    \/ \E t \in timers : Tick(t)
    \/ \E c \in InFlight : Resume(c)

Spec == Init /\ [][Next]_vars

(***************************************************************************)
(* The split of runCycle on its own: one cycle of a bot configured with    *)
(* MIN_FEE_THRESHOLD=0 and any BUYBACK_PERCENTAGE, on the bonding curve,   *)
(* up to the split.                                                        *)
(***************************************************************************)
SplitInit ==
    /\ config \in [minFeeThreshold : {FZero}, buybackPercentage : 0..100]
    /\ isRunning = FALSE
    /\ intervalId = NoTimer
    /\ timers = {}
    /\ status = InitialStatus
    /\ pumpSwapPool = NoPool
    /\ cycles = <<>>
    /\ clock = 0
    /\ emitted = <<>>
    /\ step = Step("init", 0, "none", "none", 0)
    /\ deposited = FZero
    /\ holdProduced = FZero
    /\ liquidityReported = FALSE
    /\ published = InitialStatus
    /\ logBuffer = <<>>
    /\ logged = 0
    /\ calls = 0
    /\ faults = 0

SplitNext ==
    \/ calls < MaxCalls /\ Start
    \/ \E c \in InFlight : FetchBondingCurveDone(c, "incomplete")
    \/ \E c \in InFlight : \E n \in SplitLamports : GetCreatorFeeBalanceDone(c, "ok", n)
    \/ \E c \in InFlight : CollectCoinCreatorFeeInstructionsDone(c, "ok")
    \/ \E c \in InFlight : ClaimFeesDone(c, "confirmed")

SplitSpec == SplitInit /\ [][SplitNext]_vars

(***************************************************************************)
(* Properties.                                                             *)
(***************************************************************************)
Ledger == <<status.totalFeesCollected, status.totalBuybacks, status.totalSolHeld>>

Resumed(call) == step.kind = "resume" /\ step.call = call

\* claimFees returns or throws in the last step: its transaction settled,
\* no instructions were generated, or the first call threw
ClaimFeesReturns ==
    \/ Resumed("sendClaim")
    \/ /\ Resumed("collectCoinCreatorFeeInstructions")
       /\ step.result \in {"empty", "error"}

\* the awaits of buybackOnBondingCurve
BondingCalls ==
    {"fetchGlobal", "fetchFeeConfig", "fetchBuyState", "buyInstructions",
     "sendBondingBuy"}

\* buybackOnPumpSwap returns in the last step: its transaction settled, an
\* earlier call of it threw, or, called by handlePumpSwapPhase without a
\* pool in the step in which claimFees returned, it returned at once
BuybackOnPumpSwapReturns ==
    \/ Resumed("sendBuyback")
    \/ /\ Resumed("swapSolanaState") \/ Resumed("buyQuoteInput")
       /\ step.result = "error"
    \/ /\ ClaimFeesReturns
       /\ step.result # "error"
       /\ step.cycle \in InFlight
       /\ cycles[step.cycle].phase = "pumpswap"
       /\ pumpSwapPool = NoPool

\* addLiquidityToPumpSwap returns in the last step
AddLiquidityToPumpSwapReturns ==
    \/ Resumed("sendDeposit")
    \/ /\ Resumed("liquiditySolanaState") \/ Resumed("depositInstructions")
       /\ step.result = "error"

\* C1: totalFeesCollected never decreases; the step in which the fee claim
\* of a cycle is confirmed on chain adds exactly that cycle's feeBalanceSOL
\* to it, and every other step (a claim that submitted nothing included)
\* leaves it unchanged.
C1_FeesGrowOnlyByConfirmedClaims ==
    [][/\ FGe(status'.totalFeesCollected, status.totalFeesCollected)
       /\ IF Resumed("sendClaim")' /\ step'.result = "confirmed"
          THEN status'.totalFeesCollected =
                   FAdd(status.totalFeesCollected, cycles[step'.cycle].feeBalanceSOL)
          ELSE status'.totalFeesCollected = status.totalFeesCollected]_vars

\* C2: totalSolHeld is reset to zero exactly by a confirmed liquidity
\* deposit: the step of a confirmed deposit leaves it zero, the step of a
\* failed deposit leaves it unchanged, and no other step takes it from a
\* nonzero value to zero.
C2_ReserveResetIffDepositConfirmed ==
    [][/\ (Resumed("sendDeposit")' /\ step'.result = "confirmed")
             => status'.totalSolHeld = FZero
       /\ (AddLiquidityToPumpSwapReturns' /\ step'.result # "confirmed")
             => status'.totalSolHeld = status.totalSolHeld
       /\ (status.totalSolHeld # FZero /\ status'.totalSolHeld = FZero)
             => (Resumed("sendDeposit")' /\ step'.result = "confirmed")]_vars

\* C3: once a cycle has reported 'pumpswap' with the pool set, the reported
\* phase is never 'bonding_curve' again.
C3_PhaseMonotonic ==
    liquidityReported => status.currentPhase # "bonding_curve"

\* C4: at most one runCycle invocation is in flight.
C4_SingleFlight == Cardinality(InFlight) <= 1

\* C5: totalBuybacks changes only in the step in which a buy transaction
\* (on the bonding curve or on the pool) is confirmed.
C5_BuybacksOnlyOnConfirmedBuy ==
    [][status'.totalBuybacks # status.totalBuybacks
          => /\ (Resumed("sendBondingBuy")' \/ Resumed("sendBuyback")')
             /\ step'.result = "confirmed"]_vars

\* C6: the SOL submitted in confirmed liquidity deposits never exceeds the
\* hold amounts produced by confirmed fee claims.
C6_DepositsCoveredByHolds == FGe(holdProduced, deposited)

\* C7: the split of a cycle is exact: buyback = fee * pct / 100,
\* hold = fee - buyback, buyback + hold = fee, and both parts lie between
\* zero and the fee.
C7_SplitExact ==
    \A c \in InFlight :
        cycles[c].pc = "fetchGlobal" =>
            LET fee     == cycles[c].feeBalanceSOL
                buyback == cycles[c].buybackAmount
                hold    == cycles[c].holdAmount
            IN  /\ buyback = FDivSmall(FMulSmall(fee, config.buybackPercentage), 100)
                /\ hold = FSub(fee, buyback)
                /\ FAdd(buyback, hold) = fee
                /\ FGe(buyback, FZero) /\ FGe(fee, buyback)
                /\ FGe(hold, FZero) /\ FGe(fee, hold)

\* C8: start() on a running bot and stop() on a stopped bot change nothing
\* (running flag, timers, ledger, phase, cycles in flight) and emit exactly
\* one event, a warning.
C8_RedundantStartStopAreNoOps ==
    [][((step'.kind = "start" /\ isRunning) \/ (step'.kind = "stop" /\ ~isRunning))
          => /\ UNCHANGED <<isRunning, intervalId, timers, status, pumpSwapPool,
                            cycles, clock>>
             /\ Len(emitted') = 1
             /\ emitted'[1].event = "log"
             /\ emitted'[1].level = "warning"]_vars

\* a start() was called on a running bot with a cycle in flight
C8_Witness ==
    /\ step.kind = "start"
    /\ emitted = <<Log("warning", "Bot is already running")>>
    /\ InFlight # {}

Emitted(e) == \E i \in DOMAIN emitted : emitted[i] = e

\* C9: the step in which the fee claim of a cycle fails leaves the ledger
\* unchanged, ends the cycle (no buy, no deposit), emits an error event and
\* keeps the running flag and the armed timers; the steps of a cycle up to
\* its claim never change the ledger.
C9_FailedClaimAbortsCycle ==
    [][/\ (ClaimFeesReturns' /\ step'.result = "error")
             => /\ Ledger' = Ledger
                /\ step'.cycle \notin InFlight'
                /\ Emitted(Log("error", "Failed to claim fees"))'
                /\ Emitted(CycleErrorLog)'
                /\ isRunning' = isRunning
                /\ status'.isRunning = status.isRunning
                /\ timers \subseteq timers'
                /\ (intervalId \in timers => intervalId' \in timers')
       /\ (\/ step'.kind \in {"start", "stop", "tick"}
           \/ Resumed("fetchBondingCurve")'
           \/ Resumed("getAccountInfo")'
           \/ Resumed("getCreatorFeeBalance")'
           \/ Resumed("collectCoinCreatorFeeInstructions")' /\ step'.result = "ok")
             => Ledger' = Ledger]_vars

\* the fee claim of a cycle failed while the bot was running with its timer armed
C9_Witness ==
    /\ ClaimFeesReturns
    /\ step.result = "error"
    /\ isRunning
    /\ intervalId \in timers

\* C10: a cycle goes on to claim fees exactly when the balance it read is at
\* least the threshold; below it (a failed read counts as zero) the cycle
\* changes no ledger field, emits the 'below threshold' info event and goes
\* on to the token balance refresh, whose step publishes the status and ends
\* the cycle.
C10_ClaimIffAboveThreshold ==
    [][/\ Resumed("getCreatorFeeBalance")'
             => IF step'.value >= MinFeeThresholdLamports
                THEN cycles'[step'.cycle].pc = "collectCoinCreatorFeeInstructions"
                ELSE /\ cycles'[step'.cycle].pc = "updateTokenBalance"
                     /\ Ledger' = Ledger
                     /\ Emitted(BelowThresholdLog)'
       /\ \A c \in InFlight' :
             (/\ cycles'[c].pc = "collectCoinCreatorFeeInstructions"
              /\ (c \notin InFlight \/ cycles[c].pc # "collectCoinCreatorFeeInstructions"))
                => /\ Resumed("getCreatorFeeBalance")'
                   /\ step'.cycle = c
                   /\ step'.value >= MinFeeThresholdLamports
       /\ Resumed("updateTokenBalance")'
             => /\ Ledger' = Ledger
                /\ status'.tokensHeld = step'.value
                /\ Emitted(StatusUpdate)'
                /\ step'.cycle \notin InFlight']_vars

\* a cycle read a balance below the threshold
C10_Witness ==
    /\ Resumed("getCreatorFeeBalance")
    /\ step.result = "ok"
    /\ step.value < MinFeeThresholdLamports
    /\ Emitted(BelowThresholdLog)

\* getStatus(): return { ...this.status }
GetStatus == status

\* the fields of a status that runCycle writes (isRunning is written by
\* start and stop)
CycleFields(st) == [st EXCEPT !.isRunning = FALSE]

\* C11: at any moment, a cycle suspended at a chain call or not, getStatus
\* returns the snapshot carried by the last statusUpdate event (the initial
\* status before the first one): no field a cycle writes is seen updated
\* before the cycle has published.
C11_StatusQueryReturnsPublishedSnapshot ==
    CycleFields(GetStatus) = CycleFields(published)

\* C12: in every reachable state where the loop is stopped no setInterval
\* timer is armed, so no tick can begin a cycle until the next start.
C12_StoppedMeansNoTimerArmed == ~isRunning => timers = {}

\* C13: with the pool set, the deposit a cycle attempts (when its buy has
\* resumed) is sized to totalSolHeld as it is at that moment plus the hold
\* amount of the cycle; a confirmed deposit leaves totalSolHeld at zero;
\* totalBuybacks grows by the buyback amount of the cycle in the buy step
\* and not in the deposit step.
C13_DepositSizedToWholeReserve ==
    [][/\ (BuybackOnPumpSwapReturns' /\ pumpSwapPool # NoPool)
             => /\ cycles[step'.cycle].totalSolAvailable =
                      FAdd(status.totalSolHeld, cycles[step'.cycle].holdAmount)
                /\ status'.totalBuybacks =
                      FAdd(status.totalBuybacks, cycles[step'.cycle].buybackAmount)
       /\ AddLiquidityToPumpSwapReturns'
             => /\ status'.totalBuybacks = status.totalBuybacks
                /\ (step'.result = "confirmed" => status'.totalSolHeld = FZero)]_vars

(***************************************************************************)
(* The listener of server.ts on its own, fed more entries than the buffer  *)
(* keeps.  Entries are told apart by their timestamp, the position in the  *)
(* order of emission.                                                      *)
(***************************************************************************)
\* bound of the model: 'log' events handled in one behaviour
MaxLogEvents == 503

\* LogEntry['level']
LogLevels == <<"info", "success", "warning", "error">>

\* the n-th entry emitted
LogEntry(n) ==
    [timestamp |-> n, level |-> LogLevels[(n % 4) + 1], message |-> "message"]

\* bot.on('log', entry => { logBuffer.push(entry); if (...) logBuffer.shift();
\* io.emit('log', entry) })
OnLog(entry) ==
    /\ logBuffer' = Push(logBuffer, entry)
    /\ logged' = logged + 1
    /\ UNCHANGED <<faults, calls, config, isRunning, intervalId, timers, status, pumpSwapPool,
                   cycles, clock, emitted, step, deposited, holdProduced,
                   liquidityReported, published>>

LogNext == logged < MaxLogEvents /\ OnLog(LogEntry(logged + 1))

LogSpec == Init /\ [][LogNext]_vars

\* C14: after any number n of 'log' events the buffer holds min(n, 500)
\* entries, at most 500, and they are the last min(n, 500) entries emitted,
\* in the order of emission.
C14_LogBufferKeepsLastEntries ==
    /\ Len(logBuffer) <= MAX_LOGS
    /\ Len(logBuffer) = (IF logged < MAX_LOGS THEN logged ELSE MAX_LOGS)
    /\ \A i \in 1..Len(logBuffer) :
          logBuffer[i] = LogEntry(logged - Len(logBuffer) + i)

\* more than 500 entries were emitted and the oldest ones are gone
C14_Witness ==
    /\ logged > MAX_LOGS + 1
    /\ Len(logBuffer) = MAX_LOGS
    /\ logBuffer[1].timestamp = logged - MAX_LOGS + 1

\* the runCycle invocation c returns in this step
CycleEnds(c) == c \in InFlight /\ c \notin InFlight'

\* C15: when a cycle whose fee claim was confirmed and whose deposit was not
\* confirmed ends, totalSolHeld is its value at the start of the cycle plus
\* the hold amount of the cycle, whatever the phase and the outcome of the
\* buy.
C15_HoldAddedAtHarvest ==
    [][\A c \in InFlight :
          (CycleEnds(c) /\ cycles[c].claim = "confirmed"
                        /\ cycles[c].deposit # "confirmed")
             => status'.totalSolHeld =
                   FAdd(cycles[c].heldAtStart, cycles[c].holdAmount)]_vars

\* the awaits of buybackOnPumpSwap and of addLiquidityToPumpSwap
PoolCalls ==
    {"swapSolanaState", "buyQuoteInput", "sendBuyback",
     "liquiditySolanaState", "depositInstructions", "sendDeposit"}

BuyOrDeposit == BondingCalls \cup PoolCalls

\* C16: a bonding-curve cycle whose claim and buy were confirmed adds the
\* buyback amount to totalBuybacks and the hold amount to totalSolHeld and
\* goes on to the token balance refresh without a deposit; a cycle of phase
\* unknown awaits neither a buy nor a deposit and its claim step leaves
\* totalBuybacks and totalSolHeld alone; a cycle awaits a pool buy or a
\* deposit only with phase pumpswap and the pool set.
C16_MonetaryActionsGatedByPhase ==
    [][/\ (Resumed("sendBondingBuy")' /\ step'.result = "confirmed")
             => /\ cycles[step'.cycle].phase = "bonding_curve"
                /\ status'.totalBuybacks =
                      FAdd(status.totalBuybacks, cycles[step'.cycle].buybackAmount)
                /\ status'.totalSolHeld =
                      FAdd(status.totalSolHeld, cycles[step'.cycle].holdAmount)
                /\ cycles'[step'.cycle].pc = "updateTokenBalance"
                /\ deposited' = deposited
       /\ (ClaimFeesReturns' /\ cycles[step'.cycle].phase = "unknown")
             => /\ status'.totalBuybacks = status.totalBuybacks
                /\ status'.totalSolHeld = status.totalSolHeld
                /\ (step'.cycle \in InFlight'
                       => cycles'[step'.cycle].pc = "updateTokenBalance")
       /\ \A c \in InFlight' :
             /\ cycles'[c].phase = "unknown" => cycles'[c].pc \notin BuyOrDeposit
             /\ cycles'[c].pc \in BondingCalls
                   => cycles'[c].phase = "bonding_curve"
             /\ cycles'[c].pc \in PoolCalls
                   => cycles'[c].phase = "pumpswap" /\ pumpSwapPool' # NoPool]_vars

\* the buy of a bonding-curve cycle whose claim was confirmed is confirmed
C16_Witness ==
    /\ Resumed("sendBondingBuy")
    /\ step.result = "confirmed"
    /\ cycles[step.cycle].claim = "confirmed"
    /\ cycles[step.cycle].phase = "bonding_curve"

\* C17: in every reachable state the phase is 'pumpswap' only with the
\* pool set: a completed bonding curve whose pool account is absent, or
\* whose lookup failed, with no pool cached, gives 'unknown'.
C17_LiquidityOnlyWithPool ==
    /\ status.currentPhase = "pumpswap" => pumpSwapPool # NoPool
    /\ \A c \in InFlight : cycles[c].phase = "pumpswap" => pumpSwapPool # NoPool

\* the outcomes of a chain call that are failures
Failure == {"error"}

\* C18: a step in which a chain call of a cycle fails (phase probe, pool
\* lookup, fee read, claim, buy, deposit, token balance read) emits a log
\* event of level warning or error, leaves the running flag alone and
\* leaves every armed timer armed, so that the next tick starts a cycle.
C18_FailureContainedAndLogged ==
    [][(step'.kind = "resume" /\ step'.result \in Failure)
          => /\ \E i \in DOMAIN emitted' :
                   /\ emitted'[i].event = "log"
                   /\ emitted'[i].level \in {"warning", "error"}
             /\ isRunning' = isRunning
             /\ status'.isRunning = status.isRunning
             /\ timers \subseteq timers']_vars

\* the statusUpdate events among the events of one step
StatusUpdates(events) ==
    {i \in DOMAIN events : events[i].event = "statusUpdate"}

\* C19: every step that ends a cycle, the cycle-level error handler
\* included, emits exactly one statusUpdate, and the snapshot it carries is
\* the status as it is at the end of that cycle.
C19_EveryEndedCyclePublishesOnce ==
    [][\A c \in InFlight :
          CycleEnds(c) => /\ Cardinality(StatusUpdates(emitted')) = 1
                          /\ CycleFields(published') = CycleFields(status')
      ]_vars

\* C20: the step in which the read of the unclaimed fee balance fails
\* treats the balance as zero: the cycle goes straight to the token-balance
\* refresh (no claim, buy or deposit), the ledger is unchanged, and a log
\* event of level warning is emitted.
C20_FeeReadFailureIsZeroWithWarning ==
    [][(Resumed("getCreatorFeeBalance")' /\ step'.result = "error")
          => /\ step'.cycle \in InFlight'
             /\ cycles'[step'.cycle].pc = "updateTokenBalance"
             /\ Ledger' = Ledger
             /\ \E i \in DOMAIN emitted' :
                   /\ emitted'[i].event = "log"
                   /\ emitted'[i].level = "warning"]_vars

\* C21: the step in which the pool lookup of a cycle returns after a failed
\* bonding-curve read sets the phase to pumpswap when the pool is known
\* (found by this lookup or cached earlier, whatever this lookup did) and to
\* unknown otherwise, never to bonding_curve, and the cycle goes on to the
\* fee read.
C21_FailedCurveReadFallsBackToPool ==
    [][(Resumed("getAccountInfo")' /\ cycles[step'.cycle].curve = "error")
          => /\ step'.cycle \in InFlight'
             /\ cycles'[step'.cycle].pc = "getCreatorFeeBalance"
             /\ cycles'[step'.cycle].phase =
                   (IF pumpSwapPool' # NoPool THEN "pumpswap" ELSE "unknown")
             /\ status'.currentPhase = cycles'[step'.cycle].phase
             /\ (step'.result = "exists" => pumpSwapPool' # NoPool)
             /\ (step'.result # "exists" => pumpSwapPool' = pumpSwapPool)
      ]_vars

C21_Witness ==
    /\ Resumed("getAccountInfo")
    /\ step.result = "error"
    /\ step.cycle \in InFlight
    /\ cycles[step.cycle].curve = "error"
    /\ cycles[step.cycle].phase = "pumpswap"
    /\ pumpSwapPool # NoPool

\* C22: once this.pumpSwapPool is set, no step clears or changes it (a
\* later cycle, a failed or empty lookup, start and stop included), and
\* status.pumpSwapPool is set in exactly the states in which the cached pool
\* is set, to the same address.
C22_PoolCachedForLife ==
    [][/\ (pumpSwapPool # NoPool => pumpSwapPool' = pumpSwapPool)
       /\ status.pumpSwapPool = pumpSwapPool
       /\ status'.pumpSwapPool = pumpSwapPool']_vars

C22_Witness ==
    /\ Resumed("getAccountInfo")
    /\ step.result \in {"error", "absent"}
    /\ pumpSwapPool = PoolAddress
    /\ status.pumpSwapPool = PoolAddress

\* the awaits of runCycle in the order in which a cycle reaches them
PcRank ==
    [fetchBondingCurve |-> 1, getAccountInfo |-> 2, getCreatorFeeBalance |-> 3,
     collectCoinCreatorFeeInstructions |-> 4, sendClaim |-> 5,
     fetchGlobal |-> 6, fetchFeeConfig |-> 7, fetchBuyState |-> 8,
     buyInstructions |-> 9, sendBondingBuy |-> 10,
     swapSolanaState |-> 6, buyQuoteInput |-> 7, sendBuyback |-> 8,
     liquiditySolanaState |-> 9, depositInstructions |-> 10, sendDeposit |-> 11,
     updateTokenBalance |-> 12]

\* the step taken is the continuation of cycle c after one of its awaits
Continues(c) == step'.kind = "resume" /\ step'.cycle = c

\* the step taken is a tick of an armed setInterval timer
Ticks == step'.kind = "tick"

\* every chain call a cycle awaits eventually returns or throws (a cycle
\* does not stay in flight for ever without a continuation of it running),
\* and an armed setInterval timer keeps firing
FairSpec ==
    /\ Spec
    /\ \A c \in 1..MaxCycles :
          []<>(c \notin InFlight) \/ []<><<Continues(c)>>_vars
    /\ []<>(timers = {} \/ ~CanLaunch) \/ []<><<Ticks>>_vars

\* C23: stop() does not interrupt a cycle in flight. The stop step leaves
\* every cycle in flight where it is, leaves the ledger and the published
\* snapshot alone and removes timers only; the steps of a cycle taken while
\* the bot is stopped move it forward or return and work as ever (a
\* confirmed claim is added to totalFeesCollected, the last step publishes
\* the status); and a cycle in flight while the bot is stopped eventually
\* returns.
C23_StopDoesNotInterruptCycle ==
    /\ [][/\ step'.kind = "stop"
             => /\ cycles' = cycles
                /\ Ledger' = Ledger
                /\ published' = published
                /\ timers' \subseteq timers
          /\ (~isRunning /\ step'.kind = "resume" /\ step'.cycle \in InFlight')
             => PcRank[cycles'[step'.cycle].pc] > PcRank[cycles[step'.cycle].pc]
          /\ (~isRunning /\ Resumed("sendClaim")' /\ step'.result = "confirmed")
             => status'.totalFeesCollected =
                   FAdd(status.totalFeesCollected,
                        cycles[step'.cycle].feeBalanceSOL)
          /\ (~isRunning /\ Resumed("updateTokenBalance")')
             => /\ step'.cycle \notin InFlight'
                /\ Emitted(StatusUpdate)'
                /\ published' = status'
         ]_vars
    /\ \A c \in 1..MaxCycles :
          (c \in InFlight /\ ~isRunning) ~> (c \notin InFlight)

C23_Witness ==
    /\ ~isRunning
    /\ Resumed("updateTokenBalance")
    /\ step.cycle = 1
    /\ published.totalFeesCollected # FZero
    /\ published = status

\* the last step was a phase probe that failed or found no pool account
ProbeFailed ==
    \/ Resumed("fetchBondingCurve") /\ step.result = "error"
    \/ Resumed("getAccountInfo") /\ step.result \in {"absent", "error"}

\* the reported phase is unknown, the bot is running, and a probe is under
\* way or a further cycle can still be launched by an armed timer
UnknownAwaitingProbe ==
    /\ isRunning
    /\ status.currentPhase = "unknown"
    /\ \/ \E c \in InFlight : PcRank[cycles[c].pc] <= PcRank["getAccountInfo"]
       \/ timers # {} /\ clock < MaxCycles

\* C24: unknown is not terminal. Every cycle launched starts with the phase
\* probe; a probe that succeeds reports bonding_curve for a curve that is
\* not complete and pumpswap for a complete curve or an existing pool
\* account, whatever phase was reported before; and, while the bot stays
\* running and no probe fails, a reported phase of unknown eventually
\* gives way to bonding_curve or pumpswap.
C24_UnknownIsNotTerminal ==
    /\ [][/\ step'.kind \in {"start", "tick"}
             => \A c \in InFlight' \ InFlight :
                   cycles'[c].pc = "fetchBondingCurve"
          /\ (Resumed("fetchBondingCurve")' /\ step'.result = "incomplete")
             => status'.currentPhase = "bonding_curve"
          /\ (Resumed("getAccountInfo")' /\ step'.result = "exists")
             => status'.currentPhase = "pumpswap"
         ]_vars
    /\ UnknownAwaitingProbe
          ~> (status.currentPhase # "unknown" \/ ~isRunning \/ ProbeFailed)

C24_Witness ==
    /\ isRunning
    /\ step.kind = "resume"
    /\ step.cycle = 2
    /\ step.call \in {"fetchBondingCurve", "getAccountInfo"}
    /\ step.result \in {"incomplete", "exists"}
    /\ published.currentPhase = "unknown"
    /\ published.lastCheck = 1
    /\ status.currentPhase # "unknown"

\* C25: at most one setInterval timer is armed in every reachable state,
\* and the armed timer is the one this.intervalId holds, so that one stop()
\* clears every timer.
C25_AtMostOneTimerArmed ==
    /\ Cardinality(timers) <= 1
    /\ \A t \in timers : intervalId = t

(***************************************************************************)
(* The ledger of a bot configured with MIN_FEE_THRESHOLD=0 and any         *)
(* BUYBACK_PERCENTAGE, over one cycle on the bonding curve whose claim and *)
(* buy are both confirmed.                                                 *)
(***************************************************************************)
LedgerNext ==
    \/ calls < MaxCalls /\ Start
    \/ \E c \in InFlight : FetchBondingCurveDone(c, "incomplete")
    \/ \E c \in InFlight : \E n \in SplitLamports : GetCreatorFeeBalanceDone(c, "ok", n)
    \/ \E c \in InFlight : CollectCoinCreatorFeeInstructionsDone(c, "ok")
    \/ \E c \in InFlight : ClaimFeesDone(c, "confirmed")
    \/ \E c \in InFlight : FetchGlobalDone(c, "ok")
    \/ \E c \in InFlight : FetchFeeConfigDone(c, "ok")
    \/ \E c \in InFlight : FetchBuyStateDone(c, "ok")
    \/ \E c \in InFlight : BuyInstructionsDone(c, "ok")
    \/ \E c \in InFlight : BuybackOnBondingCurveDone(c, "confirmed")

LedgerSpec == SplitInit /\ [][LedgerNext]_vars

\* C26: in every reachable state totalFeesCollected, totalBuybacks and
\* totalSolHeld are not negative and totalBuybacks + totalSolHeld, as the
\* number JavaScript computes for that sum, is at most totalFeesCollected
\* (rounding is monotonic, so this follows from the same statement about
\* the exact sum).
C26_LedgerWithinCollected ==
    /\ FSign(status.totalFeesCollected) >= 0
    /\ FSign(status.totalBuybacks) >= 0
    /\ FSign(status.totalSolHeld) >= 0
    /\ FGe(status.totalFeesCollected,
           FAdd(status.totalBuybacks, status.totalSolHeld))

(***************************************************************************)
(* Overlapping cycles: start(), stop() and start() again while the first   *)
(* initial cycle is in flight, with chain calls that all succeed.          *)
(***************************************************************************)
\* bound of the model: start() and stop() calls in one behaviour of
\* OverlapSpec
MaxOverlapCalls == 3

OverlapResume(c) ==
    \/ \E r \in {"incomplete", "complete"} : FetchBondingCurveDone(c, r)
    \/ GetAccountInfoDone(c, "exists")
    \/ \E n \in FeeLamports : GetCreatorFeeBalanceDone(c, "ok", n)
    \/ CollectCoinCreatorFeeInstructionsDone(c, "ok")
    \/ ClaimFeesDone(c, "confirmed")
    \/ FetchGlobalDone(c, "ok")
    \/ FetchFeeConfigDone(c, "ok")
    \/ FetchBuyStateDone(c, "ok")
    \/ BuyInstructionsDone(c, "ok")
    \/ BuybackOnBondingCurveDone(c, "confirmed")
    \/ SwapSolanaStateDone(c, "ok")
    \/ BuyQuoteInputDone(c, "ok")
    \/ BuybackOnPumpSwapDone(c, "confirmed")
    \/ LiquiditySolanaStateDone(c, "ok")
    \/ DepositInstructionsDone(c, "ok")
    \/ AddLiquidityToPumpSwapDone(c, "confirmed")
    \/ \E n \in TokenAmounts : UpdateTokenBalanceDone(c, "ok", n)

OverlapNext ==
    \/ calls < MaxOverlapCalls /\ Start
    \/ calls < MaxOverlapCalls /\ Stop
    \/ \E t \in timers : Tick(t)
    \/ \E c \in InFlight : OverlapResume(c)

OverlapSpec == Init /\ [][OverlapNext]_vars

====
